---- MODULE Spec2Model ----
(***************************************************************************)
(* Model of the work-day tracker: the local store and its best-effort      *)
(* remote mirror (services/storageService.ts), the session handling of the *)
(* application shell (App) and the report aggregation (ReportsTab).        *)
(*                                                                         *)
(* Numbers.  Every JavaScript number x of the program is represented by    *)
(* the integer 2x, so that the half day (0.5) and the half daily rate      *)
(* (rate / 2) of whole amounts are exact.  Num(n) is the representation of *)
(* the whole number n.  NaN is a value of its own that every arithmetic    *)
(* operation propagates.  A missing object field (undefined) is a field    *)
(* that is not in the DOMAIN of the record.                                *)
(*                                                                         *)
(* Dates.  A "yyyy-MM-dd" string is the tuple <<y, m, d>>; the string      *)
(* order of the zero-padded text is the lexicographic order of the tuple.  *)
(* An entry id is a text too: a date id is the date tuple, the decimal     *)
(* text of a millisecond clock value t is the 1-tuple <<t>>.               *)
(***************************************************************************)
EXTENDS Integers, Sequences, FiniteSets, TLC

VARIABLES
    localStorage,      \* window.localStorage: key -> stored text (or absent)
    authSession,       \* supabase.auth: the user of the current session, or none
    session,           \* App state: the session the shell renders for
    loadingSession,    \* App state: the first session check is pending
    isSyncing,         \* App state: a syncData call is running
    settings,          \* App state: the settings handed to the tabs
    remote,            \* table historico_ia: user -> category -> data
    pushes,            \* the syncKeyToSupabase calls in flight
    pulls,             \* the fetchAllFromSupabase calls in flight
    lastFetch,         \* what the last fetchAllFromSupabase call returned
    now,               \* Date.now()
    writesLeft,        \* the writes the users still make
    importCall,        \* the importAllData call of the Settings tab
    entries,           \* ReportsTab state: work entries loaded from the store
    advances,          \* ReportsTab state: advances loaded from the store
    reportMode,        \* ReportsTab state: "month" | "custom"
    currentMonthDate,  \* ReportsTab state: the reference month <<y, m>>
    customStartDate,   \* ReportsTab state: "yyyy-MM-dd"
    customEndDate,     \* ReportsTab state: "yyyy-MM-dd"
    report,            \* the value of the ReportsTab useMemo
    mounted            \* whether the ReportsTab load effect has run

vars == <<localStorage, authSession, session, loadingSession, isSyncing, settings,
          remote, pushes, pulls, lastFetch, now, writesLeft, importCall, entries, advances, reportMode, currentMonthDate,
          customStartDate, customEndDate, report, mounted>>

reportVars == <<entries, advances, reportMode, currentMonthDate,
                customStartDate, customEndDate, report, mounted>>

appVars == <<authSession, session, loadingSession, isSyncing, settings,
             remote, pushes, pulls, lastFetch, now, writesLeft, importCall>>

-----------------------------------------------------------------------------
(* Bounds of the model *)

MaxEntries == 2      \* length of a stored work-entry list drawn by InitReport
MaxAdvances == 1     \* length of a stored advance list drawn by InitReport
MaxWrites == 1       \* writes (saves, deletes) the users make, Spec
MaxSaves == 2        \* writes (saves, deletes) the user makes, SpecStore
MaxImports == 1      \* backup files chosen in the Settings tab, SpecBackup
MaxPulls == 1        \* fetchAllFromSupabase calls in flight at one time
MaxClock == 2        \* the last millisecond the clock reaches

-----------------------------------------------------------------------------
(* JavaScript values *)

Num(n) == 2 * n

NaN == 0 - Num(1000000)

JSAdd(a, b) == IF a = NaN \/ b = NaN THEN NaN ELSE a + b

JSSub(a, b) == IF a = NaN \/ b = NaN THEN NaN ELSE a - b

\* x / 2 (x whole or a multiple of one half of a whole amount)
JSHalf(a) == IF a = NaN THEN NaN ELSE a \div 2

\* the number a field reads as in an arithmetic expression: undefined -> NaN
FieldNumber(r, f) == IF f \in DOMAIN r THEN r[f] ELSE NaN

\* if (r.f): undefined, 0 and NaN are falsy
FieldTruthy(r, f) == f \in DOMAIN r /\ r[f] # 0 /\ r[f] # NaN

WORKED == "WORKED"
HALF_DAY == "HALF_DAY"
MISSED == "MISSED"
DAY_OFF == "DAY_OFF"
EXTRA_SERVICE == "EXTRA_SERVICE"

WorkStatus == {WORKED, HALF_DAY, MISSED, DAY_OFF, EXTRA_SERVICE}

KEYS == [WORK_ENTRIES |-> "mrt_work_entries",
         ADVANCES |-> "mrt_advances",
         EXPENSES |-> "mrt_expenses",
         SETTINGS |-> "mrt_settings",
         LAST_NOTIF |-> "mrt_last_notification_date"]

StorageKeys == {KEYS.WORK_ENTRIES, KEYS.ADVANCES, KEYS.EXPENSES, KEYS.SETTINGS,
                KEYS.LAST_NOTIF}

-----------------------------------------------------------------------------
(* JSON.  A JSON value is an array or an object; a stored text is the      *)
(* absent key (getItem returns null), the text of a JSON value, or a text   *)
(* that JSON.parse rejects.  JSON.stringify drops the object fields whose   *)
(* value is undefined, which are the fields left out of a record here, so   *)
(* an object and its parsed text agree field by field.                      *)

JsonArray(items) == [type |-> "array", items |-> items]

JsonObject(fields) == [type |-> "object", fields |-> fields]

NoItem == [kind |-> "null"]

JSONStringify(v) == [kind |-> "json", value |-> v]

\* JSON.parse(text) throws a SyntaxError
ParseThrows(text) == text.kind # "json"

JSONParse(text) == text.value

\* !data, for data = localStorage.getItem(key)
IsNull(text) == text.kind = "null"

\* Array.isArray(parsed)
IsArray(v) == v.type = "array"

\* the value undefined of an optional field in an object literal
Undefined == NaN - 1

\* { ...r, f: v }: the field is left out of the JSON text when v is undefined
WithOptional(r, f, v) ==
    IF v = Undefined THEN r
    ELSE [x \in DOMAIN r \cup {f} |-> IF x = f THEN v ELSE r[x]]

-----------------------------------------------------------------------------
(* Dates (date-fns) *)

\* a.localeCompare(b) < 0 on "yyyy-MM-dd" texts
DateBefore(a, b) ==
    \/ a[1] < b[1]
    \/ a[1] = b[1] /\ a[2] < b[2]
    \/ a[1] = b[1] /\ a[2] = b[2] /\ a[3] < b[3]

\* a time is counted in minutes since 1970 (months of 31 day slots)
TicksPerDay == 24 * 60

\* parseISO("yyyy-MM-dd"): the local midnight of the day
parseISO(d) == (((d[1] - 1970) * 12 + (d[2] - 1)) * 31 + (d[3] - 1)) * TicksPerDay

startOfDay(t) == t - (t % TicksPerDay)

endOfDay(t) == startOfDay(t) + TicksPerDay - 1

\* isSameMonth(parseISO(d), month) for a reference month <<y, m>>
isSameMonth(d, month) == d[1] = month[1] /\ d[2] = month[2]

MonthOf(d) == <<d[1], d[2]>>

subMonths(month) == IF month[2] = 1 THEN <<month[1] - 1, 12>> ELSE <<month[1], month[2] - 1>>

addMonths(month) == IF month[2] = 12 THEN <<month[1] + 1, 1>> ELSE <<month[1], month[2] + 1>>

DaysInMonth(month) ==
    IF month[2] \in {4, 6, 9, 11} THEN 30
    ELSE IF month[2] # 2 THEN 31
    ELSE IF month[1] % 4 = 0 /\ (month[1] % 100 # 0 \/ month[1] % 400 = 0) THEN 29 ELSE 28

startOfMonth(d) == <<d[1], d[2], 1>>

endOfMonth(d) == <<d[1], d[2], DaysInMonth(MonthOf(d))>>

\* isWithinInterval throws a RangeError on an interval whose start is after its end
IntervalIsValid(start, end) == start <= end

isWithinInterval(t, start, end) == t >= start /\ t <= end

\* new Date(): the day the application runs
Today == <<2025, 1, 7>>

-----------------------------------------------------------------------------
(* ReportsTab: the period selection and the aggregation (useMemo) *)

ZeroStats == [daysWorked |-> 0, daysMissed |-> 0, grossTotal |-> 0,
              totalAdvances |-> 0, finalTotal |-> 0, totalFromDays |-> 0,
              totalFromOvertime |-> 0, totalFromExtraServices |-> 0]

CustomStart(cs) == startOfDay(parseISO(cs))

CustomEnd(ce) == endOfDay(parseISO(ce))

\* mutant: the validation of the interval is left out
CustomGuardMissing(start, end) == TRUE

\* if (start <= end)
CustomGuard(start, end) == start <= end

\* the filter of one collection by the period of the selected mode
FilterPeriod(xs, mode, month, cs, ce) ==
    IF mode = "month"
    THEN SelectSeq(xs, LAMBDA x : isSameMonth(x.date, month))
    ELSE IF CustomGuard(CustomStart(cs), CustomEnd(ce))
         THEN SelectSeq(xs, LAMBDA x :
                  isWithinInterval(parseISO(x.date), CustomStart(cs), CustomEnd(ce)))
         ELSE <<>>

\* isWithinInterval is called on an invalid interval (it throws a RangeError)
FilterThrows(es, as, mode, cs, ce) ==
    /\ mode = "custom"
    /\ CustomGuard(CustomStart(cs), CustomEnd(ce))
    /\ ~IntervalIsValid(CustomStart(cs), CustomEnd(ce))
    /\ Len(es) + Len(as) > 0

\* mutant: a half day is paid as a full day
DayValueFullForHalfDay(e) ==
    IF e.status = WORKED \/ e.status = HALF_DAY THEN FieldNumber(e, "dailyRateSnapshot")
    ELSE 0

\* let dayValue = 0; WORKED: dailyRateSnapshot; HALF_DAY: dailyRateSnapshot / 2
DayValue(e) ==
    IF e.status = WORKED THEN FieldNumber(e, "dailyRateSnapshot")
    ELSE IF e.status = HALF_DAY THEN JSHalf(FieldNumber(e, "dailyRateSnapshot"))
    ELSE 0

\* mutant: a half day counts as a whole day worked
DaysWorkedValueWhole(e) ==
    IF e.status = WORKED \/ e.status = HALF_DAY THEN Num(1) ELSE 0

\* daysWorked += 1 (WORKED), += 0.5 (HALF_DAY)
DaysWorkedValue(e) ==
    IF e.status = WORKED THEN Num(1)
    ELSE IF e.status = HALF_DAY THEN Num(1) \div 2
    ELSE 0

\* mutant: the overtime is added without the test for its presence
OvertimeValueUnguarded(e) == FieldNumber(e, "overtimeValue")

\* if (e.overtimeValue) { totalFromOvertime += e.overtimeValue }
OvertimeValue(e) == IF FieldTruthy(e, "overtimeValue") THEN e.overtimeValue ELSE 0

\* mutant: a day off is counted as a day missed
EntryStepDayOffAsMissed(st, e) ==
    [st EXCEPT
       !.daysWorked = JSAdd(@, DaysWorkedValue(e)),
       !.daysMissed = IF e.status \in {MISSED, DAY_OFF} THEN JSAdd(@, Num(1)) ELSE @,
       !.totalFromExtraServices =
           IF e.status = EXTRA_SERVICE
           THEN JSAdd(@, FieldNumber(e, "dailyRateSnapshot")) ELSE @,
       !.totalFromDays = JSAdd(@, DayValue(e)),
       !.totalFromOvertime = JSAdd(@, OvertimeValue(e))]

\* the body of filteredEntries.forEach
EntryStep(st, e) ==
    [st EXCEPT
       !.daysWorked = JSAdd(@, DaysWorkedValue(e)),
       !.daysMissed = IF e.status = MISSED THEN JSAdd(@, Num(1)) ELSE @,
       !.totalFromExtraServices =
           IF e.status = EXTRA_SERVICE
           THEN JSAdd(@, FieldNumber(e, "dailyRateSnapshot")) ELSE @,
       !.totalFromDays = JSAdd(@, DayValue(e)),
       !.totalFromOvertime = JSAdd(@, OvertimeValue(e))]

RECURSIVE ForEachEntry(_, _)
ForEachEntry(es, st) ==
    IF es = <<>> THEN st ELSE ForEachEntry(Tail(es), EntryStep(st, Head(es)))

\* filteredAdvances.reduce((acc, curr) => acc + curr.amount, 0)
RECURSIVE SumAmounts(_, _)
SumAmounts(as, acc) ==
    IF as = <<>> THEN acc
    ELSE SumAmounts(Tail(as), JSAdd(acc, FieldNumber(Head(as), "amount")))

\* mutant: the gross total leaves the overtime out
GrossTotalWithoutOvertime(st) == JSAdd(st.totalFromDays, st.totalFromExtraServices)

GrossTotal(st) ==
    JSAdd(JSAdd(st.totalFromDays, st.totalFromOvertime), st.totalFromExtraServices)

\* mutant: the final total is clamped at zero
FinalTotalClamped(st) ==
    IF JSSub(st.grossTotal, st.totalAdvances) < 0 THEN 0
    ELSE JSSub(st.grossTotal, st.totalAdvances)

FinalTotal(st) == JSSub(st.grossTotal, st.totalAdvances)

Stats(filteredEntries, filteredAdvances) ==
    LET s1 == ForEachEntry(filteredEntries, ZeroStats)
        s2 == [s1 EXCEPT !.grossTotal = GrossTotal(s1)]
        s3 == [s2 EXCEPT !.totalAdvances = SumAmounts(filteredAdvances, 0)]
    IN  [s3 EXCEPT !.finalTotal = FinalTotal(s3)]

\* xs.sort((a, b) => a.date.localeCompare(b.date)): a stable sort
RECURSIVE InsertByDate(_, _)
InsertByDate(x, sorted) ==
    IF sorted = <<>> THEN <<x>>
    ELSE IF DateBefore(x.date, Head(sorted).date) THEN <<x>> \o sorted
    ELSE <<Head(sorted)>> \o InsertByDate(x, Tail(sorted))

\* mutant: the filtered list is returned in the stored order
SortByDateLeftOut(xs) == xs

RECURSIVE SortByDate(_)
SortByDate(xs) ==
    IF xs = <<>> THEN <<>>
    ELSE InsertByDate(xs[Len(xs)], SortByDate(SubSeq(xs, 1, Len(xs) - 1)))

\* the useMemo of ReportsTab; threw: the computation ended in an exception
ComputeReport(es, as, mode, month, cs, ce) ==
    LET filteredEntries == FilterPeriod(es, mode, month, cs, ce)
        filteredAdvances == FilterPeriod(as, mode, month, cs, ce)
    IN  [monthlyEntries |-> SortByDate(filteredEntries),
         monthlyAdvances |-> SortByDate(filteredAdvances),
         stats |-> Stats(filteredEntries, filteredAdvances),
         threw |-> FilterThrows(es, as, mode, cs, ce)]

-----------------------------------------------------------------------------
(* storageService: the getters *)

\* mutant: the parsed value is returned without the Array.isArray check
GetListWithoutListCheck(store, key) ==
    LET data == store[key]
    IN  IF IsNull(data) THEN <<>>
        ELSE IF ParseThrows(data) THEN <<>>
        ELSE IF IsArray(JSONParse(data)) THEN JSONParse(data).items
        ELSE JSONParse(data)

\* the body shared by getWorkEntries, getAdvances and getExpenses
GetList(store, key) ==
    LET data == store[key]
    IN  IF IsNull(data) THEN <<>>
        ELSE IF ParseThrows(data) THEN <<>>
        ELSE IF IsArray(JSONParse(data)) THEN JSONParse(data).items
        ELSE <<>>

getWorkEntries(store) == GetList(store, KEYS.WORK_ENTRIES)

getAdvances(store) == GetList(store, KEYS.ADVANCES)

getExpenses(store) == GetList(store, KEYS.EXPENSES)

EmptyStore == [k \in StorageKeys |-> NoItem]

-----------------------------------------------------------------------------
(* storageService: settings, writes and the local clear *)

Users == {"A", "B"}

\* session === null
NoUser == "none"

\* the values of the column category of the table historico_ia
Categories == {KEYS.WORK_ENTRIES, KEYS.ADVANCES, KEYS.EXPENSES, KEYS.SETTINGS}

\* no row (user_id, category) in the table
NoRow == [type |-> "norow"]

\* if (row.data)
RowDataTruthy(data) == data.type \in {"array", "object"}

\* no call of fetchAllFromSupabase has returned yet
NoFetch == [returned |-> FALSE, changed |-> FALSE]

\* mutant: the default start of the cycle is a fixed date
defaultSettingsFixedCycle ==
    [dailyRate |-> Num(200), workerName |-> "", employerName |-> "",
     currency |-> "BRL", theme |-> "light", notificationEnabled |-> FALSE,
     notificationTime |-> "18:00", billingCycleStartDate |-> <<2024, 12, 16>>]

defaultSettings ==
    [dailyRate |-> Num(200), workerName |-> "", employerName |-> "",
     currency |-> "BRL", theme |-> "light", notificationEnabled |-> FALSE,
     notificationTime |-> "18:00", billingCycleStartDate |-> startOfMonth(Today)]

\* { ...a, ...b }
Spread(a, b) == [f \in DOMAIN a \cup DOMAIN b |-> IF f \in DOMAIN b THEN b[f] ELSE a[f]]

getSettings(store) ==
    LET data == store[KEYS.SETTINGS]
    IN  IF IsNull(data) THEN defaultSettings
        ELSE IF ParseThrows(data) THEN defaultSettings
        ELSE Spread(defaultSettings, JSONParse(data).fields)

\* localStorage.setItem(key, text)
SetItem(store, key, text) == [store EXCEPT ![key] = text]

\* localStorage.removeItem(key)
RemoveItem(store, key) == [store EXCEPT ![key] = NoItem]

\* mutant: the date of the last notification is removed with the collections
clearLocalDataWithNotification(store) == [k \in DOMAIN store |-> NoItem]

clearLocalData(store) ==
    RemoveItem(RemoveItem(RemoveItem(RemoveItem(store,
        KEYS.WORK_ENTRIES), KEYS.ADVANCES), KEYS.EXPENSES), KEYS.SETTINGS)

\* xs.findIndex(e => e.id === id), 0 when there is none
FindIndex(xs, id) ==
    IF \E i \in DOMAIN xs : xs[i].id = id
    THEN CHOOSE i \in DOMAIN xs : xs[i].id = id /\ \A j \in 1..(i - 1) : xs[j].id # id
    ELSE 0

\* mutant: the entry is appended without the search for its id
UpsertAlwaysPushes(xs, x) == Append(xs, x)

\* if (index >= 0) xs[index] = x; else xs.push(x)
Upsert(xs, x) ==
    IF FindIndex(xs, x.id) > 0 THEN [xs EXCEPT ![FindIndex(xs, x.id)] = x]
    ELSE Append(xs, x)

\* xs without its i-th element
RemoveAt(xs, i) == [j \in 1..(Len(xs) - 1) |-> IF j < i THEN xs[j] ELSE xs[j + 1]]

\* mutant: the filter stops at the first entry of the id
FilterOutFirst(xs, id) ==
    IF FindIndex(xs, id) > 0 THEN RemoveAt(xs, FindIndex(xs, id)) ELSE xs

\* xs.filter(e => e.id !== id)
FilterOut(xs, id) == SelectSeq(xs, LAMBDA e : e.id # id)

\* mutant: the new list is handed to the remote store only
PersistListRemoteOnly(store, key, xs) == store

\* localStorage.setItem(key, JSON.stringify(xs))
PersistList(store, key, xs) == SetItem(store, key, JSONStringify(JsonArray(xs)))

\* importAllData has not been called
NoImport ==
    [pc |-> "none", content |-> NoItem, pending |-> 0, rejected |-> FALSE,
     returned |-> FALSE]

\* a promise given to Promise.all settles: fulfilled (with true or false) or rejected
Settled(call, push, rejected) ==
    IF push.awaited /\ call.pc = "awaiting"
    THEN [call EXCEPT !.pending = call.pending - 1,
                      !.rejected = call.rejected \/ rejected]
    ELSE call

\* a call syncKeyToSupabase(key, data) that has not yet looked the session up
NewPush(key, data) ==
    [key |-> key, data |-> data, pc |-> "getSession", user |-> NoUser, awaited |-> FALSE]

\* the shell shows the tabs: a session, and neither spinner
TabsShown == session # NoUser /\ ~loadingSession /\ ~isSyncing

\* the part every write handler shares: one more write, the detached push
Write(store, key, data) ==
    /\ TabsShown
    /\ writesLeft > 0
    /\ writesLeft' = writesLeft - 1
    /\ localStorage' = store
    /\ pushes' = Append(pushes, NewPush(key, data))
    /\ UNCHANGED <<authSession, session, loadingSession, isSyncing, remote, pulls,
                   lastFetch, importCall>>

saveWorkEntry(entry) ==
    LET list == Upsert(getWorkEntries(localStorage), entry)
    IN  Write(PersistList(localStorage, KEYS.WORK_ENTRIES, list),
              KEYS.WORK_ENTRIES, JsonArray(list))

deleteWorkEntry(id) ==
    LET list == FilterOut(getWorkEntries(localStorage), id)
    IN  Write(PersistList(localStorage, KEYS.WORK_ENTRIES, list),
              KEYS.WORK_ENTRIES, JsonArray(list))

saveAdvance(advance) ==
    LET list == Upsert(getAdvances(localStorage), advance)
    IN  Write(PersistList(localStorage, KEYS.ADVANCES, list),
              KEYS.ADVANCES, JsonArray(list))

deleteAdvance(id) ==
    LET list == FilterOut(getAdvances(localStorage), id)
    IN  Write(PersistList(localStorage, KEYS.ADVANCES, list),
              KEYS.ADVANCES, JsonArray(list))

\* mutant: the expense is stored among the advances
saveExpenseAmongAdvances(expense) ==
    LET list == Upsert(getAdvances(localStorage), expense)
    IN  Write(PersistList(localStorage, KEYS.ADVANCES, list),
              KEYS.ADVANCES, JsonArray(list))

saveExpense(expense) ==
    LET list == Upsert(getExpenses(localStorage), expense)
    IN  Write(PersistList(localStorage, KEYS.EXPENSES, list),
              KEYS.EXPENSES, JsonArray(list))

deleteExpense(id) ==
    LET list == FilterOut(getExpenses(localStorage), id)
    IN  Write(PersistList(localStorage, KEYS.EXPENSES, list),
              KEYS.EXPENSES, JsonArray(list))

\* mutant: the new daily rate is written into the stored work entries too
saveSettingsRewritingSnapshots(newSettings) ==
    LET list == [i \in DOMAIN getWorkEntries(localStorage) |->
                    [getWorkEntries(localStorage)[i] EXCEPT
                        !.dailyRateSnapshot = newSettings.dailyRate]]
    IN  Write(SetItem(PersistList(localStorage, KEYS.WORK_ENTRIES, list),
                      KEYS.SETTINGS, JSONStringify(JsonObject(newSettings))),
              KEYS.SETTINGS, JsonObject(newSettings))

saveSettings(newSettings) ==
    Write(SetItem(localStorage, KEYS.SETTINGS, JSONStringify(JsonObject(newSettings))),
          KEYS.SETTINGS, JsonObject(newSettings))

-----------------------------------------------------------------------------
(* The tabs: the handlers that write *)

\* the dates, statuses and amounts the forms are filled with
FormDates == {<<2025, 1, 6>>, <<2025, 1, 7>>}

FormStatuses == {WORKED, EXTRA_SERVICE}

FormOvertimes == {Num(50)}

FormServiceValues == {Num(150)}

\* the title typed for an extra service (a text the program never looks into)
FormServiceTitle == Num(0)

\* the date the forms of the advances and of the expenses are filled with
FormDay == <<2025, 1, 6>>

FormAmounts == {Num(100)}

FormRates == {Num(250)}

\* Date.now().toString(), read at the time t: no earlier than the last reading
ClockId(t) == <<t>>

ReadClock(t) == t \in now..MaxClock /\ now' = t

\* HomeTab.handleSave; every user signs the note with the own name
HomeHandleSave(selectedDate, status, overtime, serviceValue, t) ==
    /\ status = EXTRA_SERVICE => serviceValue # Undefined
    /\ IF status = EXTRA_SERVICE THEN ReadClock(t) ELSE t = now /\ UNCHANGED now
    /\ LET rateToSave == IF status = EXTRA_SERVICE THEN serviceValue
                         ELSE settings.dailyRate
           base == [id |-> IF status = EXTRA_SERVICE THEN ClockId(t) ELSE selectedDate,
                    date |-> selectedDate,
                    status |-> status,
                    note |-> session,
                    dailyRateSnapshot |-> rateToSave]
           entry == WithOptional(
                        WithOptional(base, "overtimeValue",
                            IF status \in {WORKED, HALF_DAY} /\ overtime # Undefined
                            THEN overtime ELSE Undefined),
                        "serviceTitle",
                        IF status = EXTRA_SERVICE THEN FormServiceTitle ELSE Undefined)
       IN  saveWorkEntry(entry)
    /\ ~mounted
    /\ UNCHANGED <<settings, reportVars>>

\* AdvancesTab.handleAdd
AdvancesHandleAdd(date, amount, t) ==
    /\ ReadClock(t)
    /\ saveAdvance([id |-> ClockId(t), date |-> date, amount |-> amount, note |-> session])
    /\ ~mounted
    /\ UNCHANGED <<settings, reportVars>>

\* AdvancesTab.handleDelete, on an advance of the list
AdvancesHandleDelete(id) ==
    /\ \E i \in DOMAIN getAdvances(localStorage) : getAdvances(localStorage)[i].id = id
    /\ deleteAdvance(id)
    /\ ~mounted
    /\ UNCHANGED <<settings, now, reportVars>>

\* ExpensesTab.handleAdd
ExpensesHandleAdd(date, amount, t) ==
    /\ ReadClock(t)
    /\ saveExpense([id |-> ClockId(t), date |-> date, amount |-> amount, note |-> session])
    /\ ~mounted
    /\ UNCHANGED <<settings, reportVars>>

\* ExpensesTab.handleDelete, on an expense of the list
ExpensesHandleDelete(id) ==
    /\ \E i \in DOMAIN getExpenses(localStorage) : getExpenses(localStorage)[i].id = id
    /\ deleteExpense(id)
    /\ ~mounted
    /\ UNCHANGED <<settings, now, reportVars>>

\* SettingsTab: the form is the settings with the edited fields
FormData(rate) == [settings EXCEPT !.dailyRate = rate, !.workerName = session]

\* SettingsTab.handleSave
SettingsHandleSave(rate) ==
    /\ saveSettings(FormData(rate))
    /\ settings' = FormData(rate)
    /\ ~mounted
    /\ UNCHANGED <<now, reportVars>>

\* mutant: the new cycle is written over the saved settings, the form is lost
NewCycleSettingsFromSaved(formData) == [settings EXCEPT !.billingCycleStartDate = Today]

\* { ...formData, billingCycleStartDate: todayStr }
NewCycleSettings(formData) == [formData EXCEPT !.billingCycleStartDate = Today]

\* SettingsTab.handleResetCycle, confirmed
handleResetCycle(rate) ==
    /\ saveSettings(NewCycleSettings(FormData(rate)))
    /\ settings' = NewCycleSettings(FormData(rate))
    /\ ~mounted
    /\ UNCHANGED <<now, reportVars>>

-----------------------------------------------------------------------------
(* ReportsTab: state, effect and handlers *)

\* type ReportMode = 'month' | 'custom'
ReportModes == {"month", "custom"}

\* the months the navigation buttons may reach
NavMonths == {<<2024, 12>>, <<2025, 1>>}

\* the dates offered to the two date inputs of the custom mode
StartChoices == {<<2025, 1, 1>>, <<2025, 1, 7>>}

EndChoices == {<<2025, 1, 5>>, <<2025, 1, 31>>}

\* the latest date of the loaded entries and advances ([...].sort().reverse()[0])
AllDates(es, as) == {es[i].date : i \in DOMAIN es} \cup {as[i].date : i \in DOMAIN as}

LatestDate(es, as) ==
    CHOOSE d \in AllDates(es, as) : \A o \in AllDates(es, as) : ~DateBefore(d, o)

\* the auto-jump of the load effect
AutoJump(es, as, mode, month) ==
    IF /\ mode = "month"
       /\ isSameMonth(Today, month)
       /\ ~(\E d \in AllDates(es, as) : isSameMonth(d, month))
       /\ (Len(es) > 0 \/ Len(as) > 0)
       /\ ~isSameMonth(LatestDate(es, as), month)
    THEN MonthOf(LatestDate(es, as))
    ELSE month

\* the render that follows a state change: the useMemo is recomputed
Render == report' = ComputeReport(entries', advances', reportMode',
                                  currentMonthDate', customStartDate', customEndDate')

\* useEffect(..., [dataVersion]): load the two collections, jump to the data
ReportsLoad ==
    /\ TabsShown
    /\ ~mounted
    /\ mounted' = TRUE
    /\ entries' = getWorkEntries(localStorage)
    /\ advances' = getAdvances(localStorage)
    /\ currentMonthDate' = AutoJump(entries', advances', reportMode, currentMonthDate)
    /\ UNCHANGED <<reportMode, customStartDate, customEndDate>>
    /\ Render
    /\ UNCHANGED <<localStorage, appVars>>

SetReportMode(mode) ==
    /\ mounted
    /\ reportMode' = mode
    /\ UNCHANGED <<entries, advances, currentMonthDate, customStartDate, customEndDate,
                   mounted>>
    /\ Render
    /\ UNCHANGED <<localStorage, appVars>>

PrevMonth ==
    /\ mounted /\ reportMode = "month"
    /\ subMonths(currentMonthDate) \in NavMonths
    /\ currentMonthDate' = subMonths(currentMonthDate)
    /\ UNCHANGED <<entries, advances, reportMode, customStartDate, customEndDate, mounted>>
    /\ Render
    /\ UNCHANGED <<localStorage, appVars>>

NextMonth ==
    /\ mounted /\ reportMode = "month"
    /\ addMonths(currentMonthDate) \in NavMonths
    /\ currentMonthDate' = addMonths(currentMonthDate)
    /\ UNCHANGED <<entries, advances, reportMode, customStartDate, customEndDate, mounted>>
    /\ Render
    /\ UNCHANGED <<localStorage, appVars>>

goToLatest ==
    /\ mounted /\ reportMode = "month"
    /\ Len(entries) > 0 \/ Len(advances) > 0
    /\ currentMonthDate' = MonthOf(LatestDate(entries, advances))
    /\ UNCHANGED <<entries, advances, reportMode, customStartDate, customEndDate, mounted>>
    /\ Render
    /\ UNCHANGED <<localStorage, appVars>>

SetCustomStartDate(d) ==
    /\ mounted /\ reportMode = "custom"
    /\ customStartDate' = d
    /\ UNCHANGED <<entries, advances, reportMode, currentMonthDate, customEndDate, mounted>>
    /\ Render
    /\ UNCHANGED <<localStorage, appVars>>

SetCustomEndDate(d) ==
    /\ mounted /\ reportMode = "custom"
    /\ customEndDate' = d
    /\ UNCHANGED <<entries, advances, reportMode, currentMonthDate, customStartDate, mounted>>
    /\ Render
    /\ UNCHANGED <<localStorage, appVars>>

\* handleDeleteEntry, on an entry of the list shown
handleDeleteEntry(id) ==
    /\ mounted
    /\ \E i \in DOMAIN report.monthlyEntries : report.monthlyEntries[i].id = id
    /\ deleteWorkEntry(id)
    /\ entries' = FilterOut(entries, id)
    /\ UNCHANGED <<advances, reportMode, currentMonthDate, customStartDate, customEndDate,
                   mounted, settings, now>>
    /\ Render

\* another tab, the spinner or the sign-in page replaces ReportsTab: its state is gone
UnmountReportsTab ==
    /\ entries' = <<>>
    /\ advances' = <<>>
    /\ reportMode' = "month"
    /\ currentMonthDate' = MonthOf(Today)
    /\ customStartDate' = startOfMonth(Today)
    /\ customEndDate' = endOfMonth(Today)
    /\ mounted' = FALSE
    /\ Render

\* setActiveTab(tab), tab other than 'reports'
LeaveReports ==
    /\ mounted
    /\ UnmountReportsTab
    /\ UNCHANGED <<localStorage, appVars>>

\* the state of ReportsTab at its first render
InitReportsTab ==
    /\ entries = <<>>
    /\ advances = <<>>
    /\ reportMode = "month"
    /\ currentMonthDate = MonthOf(Today)
    /\ customStartDate = startOfMonth(Today)
    /\ customEndDate = endOfMonth(Today)
    /\ mounted = FALSE
    /\ report = ComputeReport(<<>>, <<>>, "month", MonthOf(Today),
                              startOfMonth(Today), endOfMonth(Today))

-----------------------------------------------------------------------------
(* storageService: the push and the pull *)

\* syncKeyToSupabase: const { data: { session } } = await supabase.auth.getSession()
\* the lookup is outside the try block: a rejection ends the call
PushGetSession(i, outcome) ==
    /\ i \in DOMAIN pushes
    /\ pushes[i].pc = "getSession"
    /\ pushes' = IF outcome = "rejects" \/ authSession = NoUser
                 THEN RemoveAt(pushes, i)
                 ELSE [pushes EXCEPT ![i].pc = "upsert", ![i].user = authSession]
    /\ importCall' = IF outcome = "rejects" THEN Settled(importCall, pushes[i], TRUE)
                     ELSE IF authSession = NoUser THEN Settled(importCall, pushes[i], FALSE)
                     ELSE importCall
    /\ UNCHANGED <<localStorage, authSession, session, loadingSession, isSyncing,
                   settings, remote, pulls, lastFetch, now, writesLeft, reportVars>>

\* mutant: the conflict target is the category alone, every user's row is written
UpsertRowOfEveryUser(table, user, key, data) ==
    [u \in DOMAIN table |-> [table[u] EXCEPT ![key] = data]]

\* upsert({ user_id, category, data }, { onConflict: 'user_id, category' })
UpsertRow(table, user, key, data) == [table EXCEPT ![user][key] = data]

\* syncKeyToSupabase: the upsert on (user_id, category) and its three outcomes
PushUpsert(i, outcome) ==
    /\ i \in DOMAIN pushes
    /\ pushes[i].pc = "upsert"
    /\ pushes' = RemoveAt(pushes, i)
    /\ remote' = IF outcome = "ok"
                 THEN UpsertRow(remote, pushes[i].user, pushes[i].key, pushes[i].data)
                 ELSE remote
    /\ importCall' = Settled(importCall, pushes[i], FALSE)
    /\ UNCHANGED <<localStorage, authSession, session, loadingSession, isSyncing,
                   settings, pulls, lastFetch, now, writesLeft, reportVars>>

\* mutant: the rows of a list are merged into the local list
RECURSIVE ApplyRowsMerging(_, _, _)
ApplyRowsMerging(store, rows, cats) ==
    IF cats = {} THEN store
    ELSE LET c == CHOOSE k \in cats : TRUE
             next == IF rows[c] # NoRow /\ RowDataTruthy(rows[c])
                     THEN IF IsArray(rows[c])
                          THEN SetItem(store, c, JSONStringify(JsonArray(
                                   GetList(store, c) \o rows[c].items)))
                          ELSE SetItem(store, c, JSONStringify(rows[c]))
                     ELSE store
         IN  ApplyRowsMerging(next, rows, cats \ {c})

\* mutant: a category without a row is stored empty (no items, the defaults)
RECURSIVE ApplyRowsResettingMissing(_, _, _)
ApplyRowsResettingMissing(store, rows, cats) ==
    IF cats = {} THEN store
    ELSE LET c == CHOOSE k \in cats : TRUE
             next == IF rows[c] # NoRow /\ RowDataTruthy(rows[c])
                     THEN SetItem(store, c, JSONStringify(rows[c]))
                     ELSE SetItem(store, c, JSONStringify(
                              IF c = KEYS.SETTINGS THEN JsonObject(defaultSettings)
                              ELSE JsonArray(<<>>)))
         IN  ApplyRowsResettingMissing(next, rows, cats \ {c})

\* data.forEach(row => { if (row.data) localStorage.setItem(row.category, ...) })
RECURSIVE ApplyRows(_, _, _)
ApplyRows(store, rows, cats) ==
    IF cats = {} THEN store
    ELSE LET c == CHOOSE k \in cats : TRUE
             next == IF rows[c] # NoRow /\ RowDataTruthy(rows[c])
                     THEN SetItem(store, c, JSONStringify(rows[c]))
                     ELSE store
         IN  ApplyRows(next, rows, cats \ {c})

\* mutant: the older policy, the local data is cleared before the select
FetchSelectResultClearingFirst(store, rows, outcome) ==
    IF outcome = "ok"
    THEN [store |-> ApplyRows(clearLocalData(store), rows, Categories), returned |-> TRUE]
    ELSE [store |-> clearLocalData(store), returned |-> FALSE]

\* fetchAllFromSupabase from the select on: the local store it leaves, what it returns
FetchSelectResult(store, rows, outcome) ==
    IF outcome = "ok"
    THEN [store |-> ApplyRows(store, rows, Categories), returned |-> TRUE]
    ELSE [store |-> store, returned |-> FALSE]

-----------------------------------------------------------------------------
(* App: the session, syncData and the logout *)

\* syncData up to its await: the spinner replaces the tabs, the pull starts
StartSyncData ==
    /\ isSyncing' = TRUE
    /\ pulls' = Append(pulls, [pc |-> "getSession", user |-> NoUser])
    /\ UnmountReportsTab

\* syncData after its await, run when the pull i returns
FinishSyncData(i, returned) ==
    /\ pulls' = RemoveAt(pulls, i)
    /\ lastFetch' = [returned |-> returned, changed |-> localStorage' # localStorage]
    /\ settings' = getSettings(localStorage')
    /\ isSyncing' = FALSE

\* fetchAllFromSupabase: the session lookup, if (!session?.user) return false
FetchGetSession(i) ==
    /\ i \in DOMAIN pulls
    /\ pulls[i].pc = "getSession"
    /\ IF authSession = NoUser
       THEN /\ localStorage' = localStorage
            /\ FinishSyncData(i, FALSE)
       ELSE /\ pulls' = [pulls EXCEPT ![i] = [pc |-> "select", user |-> authSession]]
            /\ UNCHANGED <<localStorage, lastFetch, settings, isSyncing>>
    /\ UNCHANGED <<authSession, session, loadingSession, remote, pushes, now, writesLeft, importCall,
                   reportVars>>

\* fetchAllFromSupabase: the select answers (rows, an error, a lost connection)
FetchSelect(i, outcome) ==
    /\ i \in DOMAIN pulls
    /\ pulls[i].pc = "select"
    /\ LET result == FetchSelectResult(localStorage, remote[pulls[i].user], outcome)
       IN  /\ localStorage' = result.store
           /\ FinishSyncData(i, result.returned)
    /\ UNCHANGED <<authSession, session, loadingSession, remote, pushes, now, writesLeft, importCall,
                   reportVars>>

\* supabase.auth.getSession().then(...) of the mount effect
AppMount ==
    /\ loadingSession
    /\ session' = authSession
    /\ loadingSession' = FALSE
    /\ IF authSession # NoUser
       THEN /\ Len(pulls) < MaxPulls
            /\ StartSyncData
       ELSE UNCHANGED <<isSyncing, pulls, reportVars>>
    /\ UNCHANGED <<localStorage, authSession, settings, remote, pushes, lastFetch, now,
                   writesLeft, importCall>>

\* the callback given to onAuthStateChange
onAuthStateChange(newSession) ==
    /\ session' = newSession
    /\ IF newSession # NoUser
       THEN /\ Len(pulls) < MaxPulls
            /\ StartSyncData
       ELSE /\ UNCHANGED <<isSyncing, pulls>>
            /\ UnmountReportsTab
    /\ UNCHANGED <<localStorage, loadingSession, settings, remote, pushes, lastFetch,
                   now, writesLeft, importCall>>

\* AuthPage.handleAuth succeeds for the user u: the event SIGNED_IN
SignIn(u) ==
    /\ session = NoUser /\ ~loadingSession /\ ~isSyncing
    /\ authSession' = u
    /\ onAuthStateChange(u)

\* the client renews the token or announces the session it restored
SessionAnnounced ==
    /\ authSession # NoUser
    /\ UNCHANGED authSession
    /\ onAuthStateChange(authSession)

\* the session ends without the logout button: it expired, was revoked, or was
\* closed from another tab (the event SIGNED_OUT)
SessionEnded ==
    /\ authSession # NoUser
    /\ authSession' = NoUser
    /\ onAuthStateChange(NoUser)

\* handleLogout; signOut resolves or throws
handleLogout(outcome) ==
    /\ TabsShown
    /\ localStorage' = clearLocalData(localStorage)
    /\ session' = NoUser
    /\ authSession' = IF outcome = "ok" THEN NoUser ELSE authSession
    /\ UnmountReportsTab
    /\ UNCHANGED <<loadingSession, isSyncing, settings, remote, pushes, pulls, lastFetch,
                   now, writesLeft, importCall>>

-----------------------------------------------------------------------------
(* The application over its local store, its remote table and its session *)

\* the rows a user may already have in the table: written by that user
RowsOf(u, cats) ==
    [k \in Categories |->
        IF k \notin cats THEN NoRow
        ELSE IF k = KEYS.SETTINGS
             THEN JsonObject([defaultSettings EXCEPT !.workerName = u])
        ELSE IF k = KEYS.WORK_ENTRIES
             THEN JsonArray(<<[id |-> <<2025, 1, 6>>, date |-> <<2025, 1, 6>>,
                               status |-> WORKED, note |-> u,
                               dailyRateSnapshot |-> Num(200)]>>)
        ELSE JsonArray(<<[id |-> <<1736170>>, date |-> <<2025, 1, 6>>,
                          amount |-> Num(100), note |-> u]>>)]

\* none, some of the categories, all of them
RemoteChoices == {{}, {KEYS.WORK_ENTRIES}, Categories}

Init ==
    /\ localStorage = EmptyStore
    /\ authSession \in {NoUser, "A"}
    /\ session = NoUser
    /\ loadingSession = TRUE
    /\ isSyncing = FALSE
    /\ settings = getSettings(EmptyStore)
    /\ \E cats \in RemoteChoices :
          remote = [u \in Users |-> IF u = "B" THEN RowsOf("B", cats) ELSE RowsOf(u, {})]
    /\ pushes = <<>>
    /\ pulls = <<>>
    /\ lastFetch = NoFetch
    /\ now = 1
    /\ writesLeft = MaxWrites
    /\ importCall = NoImport
    /\ InitReportsTab

Next ==
    \/ AppMount
    \/ \E u \in Users : SignIn(u)
    \/ SessionAnnounced
    \/ SessionEnded
    \/ \E outcome \in {"ok", "throws"} : handleLogout(outcome)
    \/ \E i \in 1..MaxPulls : FetchGetSession(i)
    \/ \E i \in 1..MaxPulls, outcome \in {"ok", "error", "throws"} : FetchSelect(i, outcome)
    \/ \E i \in DOMAIN pushes, outcome \in {"ok", "rejects"} : PushGetSession(i, outcome)
    \/ \E i \in DOMAIN pushes, outcome \in {"ok", "error", "throws"} : PushUpsert(i, outcome)
    \/ \E d \in FormDates, st \in FormStatuses, ot \in FormOvertimes,
          sv \in FormServiceValues,
          t \in 1..MaxClock : HomeHandleSave(d, st, ot, sv, t)
    \/ \E a \in FormAmounts, t \in 1..MaxClock : AdvancesHandleAdd(FormDay, a, t)
    \/ \E i \in DOMAIN getAdvances(localStorage) :
          AdvancesHandleDelete(getAdvances(localStorage)[i].id)
    \/ \E a \in FormAmounts, t \in 1..MaxClock : ExpensesHandleAdd(FormDay, a, t)
    \/ \E i \in DOMAIN getExpenses(localStorage) :
          ExpensesHandleDelete(getExpenses(localStorage)[i].id)
    \/ \E r \in FormRates : SettingsHandleSave(r)
    \/ \E r \in FormRates : handleResetCycle(r)
    \/ ReportsLoad
    \/ LeaveReports
    \/ \E i \in DOMAIN entries : handleDeleteEntry(entries[i].id)

Spec == Init /\ [][Next]_vars

-----------------------------------------------------------------------------
(* One session: the user A is signed in, the first pull found no rows, and   *)
(* the tabs are used one after the other                                      *)

InitStore ==
    /\ localStorage \in {EmptyStore,
                         \* setLastNotificationDate has stored a "yyyy-MM-dd" text
                         [EmptyStore EXCEPT ![KEYS.LAST_NOTIF] = [kind |-> "text"]]}
    /\ authSession = "A"
    /\ session = "A"
    /\ loadingSession = FALSE
    /\ isSyncing = FALSE
    /\ settings = getSettings(EmptyStore)
    /\ remote = [u \in Users |-> RowsOf(u, {})]
    /\ pushes = <<>>
    /\ pulls = <<>>
    /\ lastFetch = [returned |-> TRUE, changed |-> FALSE]
    /\ now = 1
    /\ writesLeft = MaxSaves
    /\ importCall = NoImport
    /\ InitReportsTab

NextStore ==
    \/ \E d \in FormDates, st \in FormStatuses, ot \in FormOvertimes,
          sv \in FormServiceValues,
          t \in 1..MaxClock : HomeHandleSave(d, st, ot, sv, t)
    \/ \E i \in DOMAIN entries : handleDeleteEntry(entries[i].id)
    \/ \E a \in FormAmounts, t \in 1..MaxClock : AdvancesHandleAdd(FormDay, a, t)
    \/ \E i \in DOMAIN getAdvances(localStorage) :
          AdvancesHandleDelete(getAdvances(localStorage)[i].id)
    \/ \E a \in FormAmounts, t \in 1..MaxClock : ExpensesHandleAdd(FormDay, a, t)
    \/ \E i \in DOMAIN getExpenses(localStorage) :
          ExpensesHandleDelete(getExpenses(localStorage)[i].id)
    \/ \E r \in FormRates : SettingsHandleSave(r)
    \/ \E r \in FormRates : handleResetCycle(r)
    \/ ReportsLoad
    \/ LeaveReports
    \/ \E outcome \in {"ok", "throws"} : handleLogout(outcome)
    \/ \E i \in DOMAIN pushes, outcome \in {"ok", "rejects"} : PushGetSession(i, outcome)
    \/ \E i \in DOMAIN pushes, outcome \in {"ok", "error", "throws"} : PushUpsert(i, outcome)

SpecStore == InitStore /\ [][NextStore]_vars

\* one session in which every push finds the session and every upsert succeeds
NextAllPushesLand ==
    \/ \E d \in FormDates, st \in FormStatuses, ot \in FormOvertimes,
          sv \in FormServiceValues,
          t \in 1..MaxClock : HomeHandleSave(d, st, ot, sv, t)
    \/ \E i \in DOMAIN entries : handleDeleteEntry(entries[i].id)
    \/ \E a \in FormAmounts, t \in 1..MaxClock : AdvancesHandleAdd(FormDay, a, t)
    \/ \E i \in DOMAIN getAdvances(localStorage) :
          AdvancesHandleDelete(getAdvances(localStorage)[i].id)
    \/ \E a \in FormAmounts, t \in 1..MaxClock : ExpensesHandleAdd(FormDay, a, t)
    \/ \E i \in DOMAIN getExpenses(localStorage) :
          ExpensesHandleDelete(getExpenses(localStorage)[i].id)
    \/ \E r \in FormRates : SettingsHandleSave(r)
    \/ \E r \in FormRates : handleResetCycle(r)
    \/ ReportsLoad
    \/ LeaveReports
    \/ \E i \in DOMAIN pushes : PushGetSession(i, "ok")
    \/ \E i \in DOMAIN pushes : PushUpsert(i, "ok")

SpecAllPushesLand == InitStore /\ [][NextAllPushesLand]_vars

-----------------------------------------------------------------------------
(* The report over a stored ledger.  importAllData and the remote pull      *)
(* store the lists they are given without looking into them, so every list  *)
(* of entries is a content the local store can have.                        *)

WorkEntry(id, date, status, rate, overtime) ==
    WithOptional([id |-> id, date |-> date, status |-> status,
                  dailyRateSnapshot |-> rate], "overtimeValue", overtime)

AdvanceEntry(id, date, amount) == [id |-> id, date |-> date, amount |-> amount]

LedgerEntries ==
    { WorkEntry(<<2025, 1, 5>>, <<2025, 1, 5>>, WORKED, Num(200), Undefined),
      WorkEntry(<<2025, 1, 6>>, <<2025, 1, 6>>, HALF_DAY, Num(200), Num(50)),
      WorkEntry(<<2025, 1, 7>>, <<2025, 1, 7>>, MISSED, Num(200), Undefined),
      WorkEntry(<<1736250>>, <<2025, 1, 7>>, EXTRA_SERVICE, Num(150), Undefined),
      WorkEntry(<<2024, 12, 31>>, <<2024, 12, 31>>, WORKED, Num(150), 0),
      WorkEntry(<<2024, 12, 31>>, <<2024, 12, 31>>, DAY_OFF, Num(200), Num(50)),
      WorkEntry(<<2025, 1, 5>>, <<2025, 1, 5>>, MISSED, Num(150), Num(50)),
      WorkEntry(<<1736160>>, <<2025, 1, 6>>, EXTRA_SERVICE, Num(200), Num(50)),
      WorkEntry(<<2025, 1, 7>>, <<2025, 1, 7>>, HALF_DAY, Num(150), Undefined),
      WorkEntry(<<2025, 1, 6>>, <<2025, 1, 6>>, WORKED, Num(200), Num(50)) }

LedgerAdvances ==
    { AdvanceEntry(<<1736170>>, <<2025, 1, 6>>, Num(100)),
      AdvanceEntry(<<1736080>>, <<2025, 1, 5>>, Num(500)),
      AdvanceEntry(<<1735650>>, <<2024, 12, 31>>, Num(100)) }

\* the scenario of the specification's section 8
ScenarioEntries ==
    << WorkEntry(<<2025, 1, 5>>, <<2025, 1, 5>>, WORKED, Num(200), Undefined),
       WorkEntry(<<2025, 1, 6>>, <<2025, 1, 6>>, HALF_DAY, Num(200), Num(50)),
       WorkEntry(<<2025, 1, 7>>, <<2025, 1, 7>>, MISSED, Num(200), Undefined) >>

ScenarioAdvances == << AdvanceEntry(<<1736170>>, <<2025, 1, 6>>, Num(100)) >>

\* a ledger around a cycle that was opened on 2024-12-16
CycleEntries ==
    << WorkEntry(<<2024, 12, 15>>, <<2024, 12, 15>>, WORKED, Num(200), Undefined),
       WorkEntry(<<2024, 12, 16>>, <<2024, 12, 16>>, WORKED, Num(200), Undefined) >>

CycleAdvances == << AdvanceEntry(<<1734300>>, <<2024, 12, 15>>, Num(100)) >>

CycleSettings == [defaultSettings EXCEPT !.billingCycleStartDate = <<2024, 12, 16>>]

BoundedSeq(S, n) == UNION {[1..k -> S] : k \in 0..n}

InitReport ==
    /\ \/ \E es \in BoundedSeq(LedgerEntries, MaxEntries) \cup {ScenarioEntries},
             as \in BoundedSeq(LedgerAdvances, MaxAdvances) \cup {ScenarioAdvances} :
             localStorage = [EmptyStore EXCEPT
                 ![KEYS.WORK_ENTRIES] = JSONStringify(JsonArray(es)),
                 ![KEYS.ADVANCES] = JSONStringify(JsonArray(as))]
       \/ localStorage = [EmptyStore EXCEPT
              ![KEYS.WORK_ENTRIES] = JSONStringify(JsonArray(CycleEntries)),
              ![KEYS.ADVANCES] = JSONStringify(JsonArray(CycleAdvances)),
              ![KEYS.SETTINGS] = JSONStringify(JsonObject(CycleSettings))]
    /\ authSession = "A"
    /\ session = "A"
    /\ loadingSession = FALSE
    /\ isSyncing = FALSE
    /\ settings = getSettings(localStorage)
    /\ remote = [u \in Users |-> [k \in Categories |-> NoRow]]
    /\ pushes = <<>>
    /\ pulls = <<>>
    /\ lastFetch = NoFetch
    /\ now = 1
    /\ writesLeft = 0
    /\ importCall = NoImport
    /\ InitReportsTab

NextReport ==
    \/ ReportsLoad
    \/ \E mode \in ReportModes : SetReportMode(mode)
    \/ PrevMonth
    \/ NextMonth
    \/ goToLatest
    \/ \E d \in StartChoices : SetCustomStartDate(d)
    \/ \E d \in EndChoices : SetCustomEndDate(d)

SpecReport == InitReport /\ [][NextReport]_vars

\* the tabs shown over a ledger that is stored already: three days and two
\* advances and expenses, or (after a backup that held a day twice was
\* restored) the same with a second entry of 2025-01-06
InitLedger ==
    /\ \E es \in {ScenarioEntries,
                  Append(ScenarioEntries, [ScenarioEntries[2] EXCEPT !.status = WORKED])} :
          localStorage = [EmptyStore EXCEPT
              ![KEYS.WORK_ENTRIES] = JSONStringify(JsonArray(es)),
              ![KEYS.ADVANCES] = JSONStringify(JsonArray(
                  << AdvanceEntry(<<1736170>>, <<2025, 1, 6>>, Num(100)),
                     AdvanceEntry(<<1736080>>, <<2025, 1, 5>>, Num(500)) >>)),
              ![KEYS.EXPENSES] = JSONStringify(JsonArray(
                  << AdvanceEntry(<<1736200>>, <<2025, 1, 6>>, Num(30)),
                     AdvanceEntry(<<1736100>>, <<2025, 1, 5>>, Num(80)) >>))]
    /\ authSession = "A"
    /\ session = "A"
    /\ loadingSession = FALSE
    /\ isSyncing = FALSE
    /\ settings = getSettings(localStorage)
    /\ remote = [u \in Users |-> RowsOf(u, {})]
    /\ pushes = <<>>
    /\ pulls = <<>>
    /\ lastFetch = [returned |-> TRUE, changed |-> FALSE]
    /\ now = 1
    /\ writesLeft = MaxSaves
    /\ importCall = NoImport
    /\ InitReportsTab

SpecLedger == InitLedger /\ [][NextStore]_vars

-----------------------------------------------------------------------------
(* The backup file: exportAllData, importAllData and the Settings tab that  *)
(* calls them, over what the store of a device can hold when the            *)
(* application starts                                                       *)

\* a stored text JSON.parse rejects
Garbage == [kind |-> "text"]

\* the JSON value null
JsonNull == [type |-> "null"]

\* !data.f is false: the field is there and is an array or an object
HasField(data, f) == f \in DOMAIN data.fields /\ data.fields[f].type \in {"array", "object"}

exportAllData(store, t) ==
    JSONStringify(JsonObject(
        [workEntries |-> JsonArray(getWorkEntries(store)),
         advances |-> JsonArray(getAdvances(store)),
         expenses |-> JsonArray(getExpenses(store)),
         settings |-> JsonObject(getSettings(store)),
         exportedAt |-> ClockId(t),
         appVersion |-> "1.2"]))

\* mutant: the check of the fields leaves the settings out
ImportThrowsWithoutSettingsCheck(content) ==
    \/ ParseThrows(content)
    \/ JSONParse(content).type # "object"
    \/ ~HasField(JSONParse(content), "workEntries")
    \/ ~HasField(JSONParse(content), "advances")

\* JSON.parse throws, or data is null, or the check of the three fields throws
ImportThrows(content) ==
    \/ ParseThrows(content)
    \/ JSONParse(content).type # "object"
    \/ ~HasField(JSONParse(content), "workEntries")
    \/ ~HasField(JSONParse(content), "advances")
    \/ ~HasField(JSONParse(content), "settings")

\* data.f, the JSON value null standing for undefined too
FieldValue(data, f) == IF f \in DOMAIN data.fields THEN data.fields[f] ELSE JsonNull

\* JSON.stringify(data.f): of undefined it is undefined, stored as a text
\* JSON.parse rejects
FieldText(data, f) ==
    IF f \in DOMAIN data.fields THEN JSONStringify(data.fields[f]) ELSE Garbage

\* the four setItem calls of importAllData
ImportStore(store, data) ==
    SetItem(SetItem(SetItem(SetItem(store,
        KEYS.WORK_ENTRIES, FieldText(data, "workEntries")),
        KEYS.ADVANCES, FieldText(data, "advances")),
        KEYS.EXPENSES, IF HasField(data, "expenses")
                       THEN FieldText(data, "expenses")
                       ELSE JSONStringify(JsonArray(<<>>))),
        KEYS.SETTINGS, FieldText(data, "settings"))

\* a call of syncKeyToSupabase whose promise is given to Promise.all
AwaitedPush(key, data) == [NewPush(key, data) EXCEPT !.awaited = TRUE]

\* the promises of importAllData
ImportPushes(data) ==
    <<AwaitedPush(KEYS.WORK_ENTRIES, FieldValue(data, "workEntries")),
      AwaitedPush(KEYS.ADVANCES, FieldValue(data, "advances")),
      AwaitedPush(KEYS.SETTINGS, FieldValue(data, "settings"))>>
    \o (IF HasField(data, "expenses")
        THEN <<AwaitedPush(KEYS.EXPENSES, FieldValue(data, "expenses"))>>
        ELSE <<>>)

\* SettingsTab.handleFileChange up to the await of Promise.all: importAllData
\* throws before its writes and returns false, or writes and waits
importAllData(content) ==
    /\ TabsShown
    /\ ~mounted
    /\ importCall.pc # "awaiting"
    /\ writesLeft > 0
    /\ writesLeft' = writesLeft - 1
    /\ IF ImportThrows(content)
       THEN /\ importCall' = [pc |-> "returned", content |-> content, pending |-> 0,
                              rejected |-> FALSE, returned |-> FALSE]
            /\ UNCHANGED <<localStorage, pushes>>
       ELSE /\ localStorage' = ImportStore(localStorage, JSONParse(content))
            /\ pushes' = pushes \o ImportPushes(JSONParse(content))
            /\ importCall' = [pc |-> "awaiting", content |-> content,
                              pending |-> Len(ImportPushes(JSONParse(content))),
                              rejected |-> FALSE, returned |-> FALSE]
    /\ UNCHANGED <<authSession, session, loadingSession, isSyncing, settings, remote,
                   pulls, lastFetch, now, reportVars>>

\* Promise.all rejects with the first promise that rejects: catch, return false
ImportRejected ==
    /\ importCall.pc = "awaiting"
    /\ importCall.rejected
    /\ importCall' = [importCall EXCEPT !.pc = "returned", !.returned = FALSE]
    /\ UNCHANGED <<localStorage, authSession, session, loadingSession, isSyncing,
                   settings, remote, pushes, pulls, lastFetch, now, writesLeft,
                   reportVars>>

\* Promise.all resolves: return true, and handleFileChange reloads the page,
\* which starts the application again over the store
ImportResolved ==
    /\ importCall.pc = "awaiting"
    /\ ~importCall.rejected
    /\ importCall.pending = 0
    /\ importCall' = [importCall EXCEPT !.pc = "returned", !.returned = TRUE]
    /\ session' = NoUser
    /\ loadingSession' = TRUE
    /\ isSyncing' = FALSE
    /\ settings' = getSettings(localStorage)
    /\ pulls' = <<>>
    /\ lastFetch' = NoFetch
    /\ UNCHANGED <<localStorage, authSession, remote, pushes, now, writesLeft,
                   reportVars>>

\* SettingsTab.handleExport followed by the choice of that file in handleFileChange
RestoreOwnBackup(t) ==
    /\ ReadClock(t)
    /\ importAllData(exportAllData(localStorage, t))

\* what the keys of a device can hold
StoredEntries ==
    {NoItem, Garbage, JSONStringify(JsonObject([total |-> Num(1)])),
     JSONStringify(JsonArray(<<WorkEntry(<<2025, 1, 6>>, <<2025, 1, 6>>, WORKED,
                                         Num(200), Undefined)>>))}

StoredAdvances ==
    {NoItem, JSONStringify(JsonArray(<<AdvanceEntry(<<1736100>>, <<2025, 1, 6>>,
                                                    Num(100))>>))}

StoredExpenses ==
    {Garbage, JSONStringify(JsonArray(<<AdvanceEntry(<<1736200>>, <<2025, 1, 6>>,
                                                     Num(30))>>))}

StoredSettings ==
    {NoItem, Garbage, JSONStringify(JsonObject([dailyRate |-> Num(300)])),
     JSONStringify(JsonObject([defaultSettings EXCEPT
                                   !.billingCycleStartDate = <<2024, 12, 16>>]))}

\* the files chosen in the Settings tab
FullBackup ==
    [workEntries |-> JsonArray(<<WorkEntry(<<2025, 1, 7>>, <<2025, 1, 7>>, HALF_DAY,
                                           Num(250), Undefined)>>),
     advances |-> JsonArray(<<>>),
     expenses |-> JsonArray(<<>>),
     settings |-> JsonObject([defaultSettings EXCEPT !.dailyRate = Num(250)])]

Without(r, f) == [x \in DOMAIN r \ {f} |-> r[x]]

BackupFiles ==
    {Garbage, JSONStringify(JsonNull),
     JSONStringify(JsonObject(Without(FullBackup, "workEntries"))),
     JSONStringify(JsonObject(Without(FullBackup, "advances"))),
     JSONStringify(JsonObject(Without(FullBackup, "settings"))),
     JSONStringify(JsonObject([FullBackup EXCEPT !.settings = JsonNull])),
     JSONStringify(JsonObject(Without(FullBackup, "expenses"))),
     JSONStringify(JsonObject(FullBackup))}

InitBackup ==
    /\ localStorage \in {[k \in StorageKeys |->
                             IF k = KEYS.WORK_ENTRIES THEN e
                             ELSE IF k = KEYS.ADVANCES THEN a
                             ELSE IF k = KEYS.EXPENSES THEN x
                             ELSE IF k = KEYS.SETTINGS THEN st
                             ELSE NoItem] :
                         e \in StoredEntries, a \in StoredAdvances,
                         x \in StoredExpenses, st \in StoredSettings}
    /\ authSession = "A"
    /\ session = "A"
    /\ loadingSession = FALSE
    /\ isSyncing = FALSE
    /\ settings = getSettings(localStorage)
    /\ remote = [u \in Users |-> RowsOf(u, {})]
    /\ pushes = <<>>
    /\ pulls = <<>>
    /\ lastFetch = [returned |-> TRUE, changed |-> FALSE]
    /\ now = 1
    /\ writesLeft = MaxImports
    /\ importCall = NoImport
    /\ InitReportsTab

NextBackup ==
    \/ \E content \in BackupFiles : importAllData(content)
    \/ \E t \in 1..MaxClock : RestoreOwnBackup(t)
    \/ ImportRejected
    \/ ImportResolved
    \/ SessionEnded
    \/ ReportsLoad
    \/ LeaveReports
    \/ \E i \in DOMAIN pushes, outcome \in {"ok", "rejects"} : PushGetSession(i, outcome)
    \/ \E i \in DOMAIN pushes, outcome \in {"ok", "error", "throws"} : PushUpsert(i, outcome)

SpecBackup == InitBackup /\ [][NextBackup]_vars

-----------------------------------------------------------------------------
(* The reads of a device: the application starts over what the store holds *)
(* and the Reports tab is opened and left                                   *)

NextDevice ==
    \/ ReportsLoad
    \/ LeaveReports
    \/ \E mode \in ReportModes : SetReportMode(mode)

SpecDevice == InitBackup /\ [][NextDevice]_vars

-----------------------------------------------------------------------------
(* Properties of the store, of its mirror and of the session *)

\* the positions of the entries of a date that are not extra services
DayEntriesOn(xs, d) == {i \in DOMAIN xs : xs[i].date = d /\ xs[i].status # EXTRA_SERVICE}

DatesOf(xs) == {xs[i].date : i \in DOMAIN xs}

\* C1: the stored work entries hold, for every date, at most one entry that
\* is not an extra service, after any sequence of saves and deletes made
\* through the tabs.
C1_OneDayEntryPerDate ==
    \A d \in DatesOf(getWorkEntries(localStorage)) :
        Cardinality(DayEntriesOn(getWorkEntries(localStorage), d)) <= 1

\* the same day was saved twice (both pushes are still in flight, each with
\* the one-entry list it was given) and the store holds exactly one entry
C1_Witness ==
    /\ writesLeft = 0
    /\ importCall = NoImport
    /\ Len(pushes) = 2
    /\ \A i \in 1..2 :
          /\ pushes[i].key = KEYS.WORK_ENTRIES
          /\ Len(pushes[i].data.items) = 1
          /\ pushes[i].data.items[1].id = <<2025, 1, 7>>
          /\ pushes[i].data.items[1].status = WORKED
    /\ Len(getWorkEntries(localStorage)) = 1
    /\ Cardinality(DayEntriesOn(getWorkEntries(localStorage), <<2025, 1, 7>>)) = 1

C3_LocalWriteStandsWhateverThePush ==
    [][/\ Len(pushes') = Len(pushes) + 1 =>
            localStorage'[pushes'[Len(pushes')].key]
                = JSONStringify(pushes'[Len(pushes')].data)
       /\ (Len(pushes') < Len(pushes) \/ (Len(pushes') = Len(pushes) /\ pushes' # pushes)) =>
            localStorage' = localStorage]_vars

\* the push of a saved work entry of A ended without a row written for any
\* user, and the store of A still holds the entry
C3_Witness ==
    /\ writesLeft = 0
    /\ importCall = NoImport
    /\ pushes = <<>>
    /\ session = "A" /\ ~isSyncing
    /\ Len(getWorkEntries(localStorage)) = 1
    /\ getWorkEntries(localStorage)[1].note = "A"
    /\ \A u \in Users :
          JSONStringify(remote[u][KEYS.WORK_ENTRIES]) # localStorage[KEYS.WORK_ENTRIES]

\* the local store holds something written under the session of the user u
HoldsDataOf(store, u) ==
    \/ \E k \in {KEYS.WORK_ENTRIES, KEYS.ADVANCES, KEYS.EXPENSES} :
          \E i \in DOMAIN GetList(store, k) : GetList(store, k)[i].note = u
    \/ getSettings(store).workerName = u

\* C4 as stated: once B is signed in and the pull of the sign-in has
\* returned, nothing written under the session of A is in the local store.
C4_OnlyTheCurrentUsersData ==
    (/\ session = "B" /\ authSession = "B"
     /\ ~loadingSession /\ ~isSyncing
     /\ pulls = <<>>
     /\ lastFetch.returned)
        => ~HoldsDataOf(localStorage, "A")

-----------------------------------------------------------------------------
(* Properties of the report.  The period is restated here on the           *)
(* yyyymmdd number of a date, apart from the date arithmetic of the model. *)

DayIndex(d) == d[1] * 10000 + d[2] * 100 + d[3]

InSelectedPeriod(d) ==
    IF reportMode = "month"
    THEN d[1] = currentMonthDate[1] /\ d[2] = currentMonthDate[2]
    ELSE DayIndex(customStartDate) <= DayIndex(d) /\ DayIndex(d) <= DayIndex(customEndDate)

SelectedEntries == {i \in DOMAIN entries : InSelectedPeriod(entries[i].date)}

SelectedAdvances == {i \in DOMAIN advances : InSelectedPeriod(advances[i].date)}

RECURSIVE SumF(_, _)
SumF(f, S) ==
    IF S = {} THEN 0
    ELSE LET x == CHOOSE y \in S : TRUE IN f[x] + SumF(f, S \ {x})

WithStatus(status) == {i \in SelectedEntries : entries[i].status = status}

StatsAreNumbers ==
    \A f \in DOMAIN report.stats : report.stats[f] # NaN

\* C5: finalTotal == grossTotal - totalAdvances and grossTotal ==
\* totalFromDays + totalFromOvertime + totalFromExtraServices in every
\* aggregation result; finalTotal is not clamped: it is negative whenever the
\* filtered advances exceed the gross total.
C5_FinalTotalIsGrossMinusAdvances ==
    /\ StatsAreNumbers
    /\ report.stats.finalTotal = report.stats.grossTotal - report.stats.totalAdvances
    /\ report.stats.grossTotal = report.stats.totalFromDays
           + report.stats.totalFromOvertime + report.stats.totalFromExtraServices
    /\ report.stats.totalAdvances
           = SumF([i \in DOMAIN advances |-> advances[i].amount], SelectedAdvances)
    /\ report.stats.totalAdvances > report.stats.grossTotal
           => report.stats.finalTotal < 0

C5_Witness ==
    /\ mounted
    /\ SelectedEntries # {}
    /\ report.stats.grossTotal > 0
    /\ report.stats.totalAdvances > report.stats.grossTotal
    /\ report.stats.finalTotal < 0

\* C6: the scenario WORKED 2025-01-05, HALF_DAY 2025-01-06 with overtime 50,
\* MISSED 2025-01-07, all at rate 200, and one advance of 100 on 2025-01-06, in
\* month mode for January 2025, yields daysWorked 1.5, daysMissed 1,
\* totalFromDays 300, totalFromOvertime 50, grossTotal 350, totalAdvances 100
\* and finalTotal 250.
C6_Scenario ==
    ( /\ mounted
      /\ entries = ScenarioEntries
      /\ advances = ScenarioAdvances
      /\ reportMode = "month"
      /\ currentMonthDate = <<2025, 1>> )
    => report.stats = [daysWorked |-> Num(1) + Num(1) \div 2,
                       daysMissed |-> Num(1),
                       totalFromDays |-> Num(300),
                       totalFromOvertime |-> Num(50),
                       totalFromExtraServices |-> 0,
                       grossTotal |-> Num(350),
                       totalAdvances |-> Num(100),
                       finalTotal |-> Num(250)]

C6_Witness ==
    /\ mounted
    /\ entries = ScenarioEntries
    /\ advances = ScenarioAdvances
    /\ reportMode = "month"
    /\ currentMonthDate = <<2025, 1>>
    /\ report.stats.finalTotal = Num(250)

\* C7: every filtered HALF_DAY entry adds half its dailyRateSnapshot to
\* totalFromDays and one half to daysWorked, every filtered WORKED entry adds
\* its dailyRateSnapshot and one (both sides are doubled, to stay in whole units);
\* a single filtered HALF_DAY at rate 200 gives totalFromDays 100, daysWorked 0.5.
C7_HalfDayCountsHalf ==
    /\ 2 * report.stats.totalFromDays
         = SumF([i \in DOMAIN entries |-> 2 * entries[i].dailyRateSnapshot], WithStatus(WORKED))
           + SumF([i \in DOMAIN entries |-> entries[i].dailyRateSnapshot], WithStatus(HALF_DAY))
    /\ 2 * report.stats.daysWorked
         = 2 * Num(1) * Cardinality(WithStatus(WORKED))
           + Num(1) * Cardinality(WithStatus(HALF_DAY))
    /\ \A i \in SelectedEntries :
         ( /\ SelectedEntries = {i}
           /\ entries[i].status = HALF_DAY
           /\ entries[i].dailyRateSnapshot = Num(200) )
         => /\ report.stats.totalFromDays = Num(100)
            /\ 2 * report.stats.daysWorked = Num(1)

C7_Witness ==
    /\ mounted
    /\ \E i \in SelectedEntries :
         /\ SelectedEntries = {i}
         /\ entries[i].status = HALF_DAY
         /\ entries[i].dailyRateSnapshot = Num(200)
    /\ report.stats.totalFromDays = Num(100)

AllWorkedAtOneRate ==
    /\ mounted
    /\ Len(entries) > 0
    /\ SelectedEntries = DOMAIN entries
    /\ \A i \in DOMAIN entries :
         /\ entries[i].status = WORKED
         /\ entries[i].dailyRateSnapshot = entries[1].dailyRateSnapshot

\* C8 as stated: over all-WORKED entries at rate R, all of them selected,
\* grossTotal == count * R.
C8_GrossIsCountTimesRate ==
    AllWorkedAtOneRate
    => report.stats.grossTotal = Len(entries) * entries[1].dailyRateSnapshot

\* C8 as amended: over all-WORKED entries at rate R, all of them selected,
\* grossTotal == count * R plus the overtime values the entries carry, which
\* is count * R when no entry carries an overtime value.
C8_GrossIsCountTimesRatePlusOvertime ==
    AllWorkedAtOneRate
    => /\ report.stats.grossTotal
            = Len(entries) * entries[1].dailyRateSnapshot
              + SumF([i \in DOMAIN entries |-> entries[i].overtimeValue],
                     {i \in DOMAIN entries : "overtimeValue" \in DOMAIN entries[i]})
       /\ (\A i \in DOMAIN entries : "overtimeValue" \notin DOMAIN entries[i])
            => report.stats.grossTotal = Len(entries) * entries[1].dailyRateSnapshot

C8_Witness ==
    /\ AllWorkedAtOneRate
    /\ Len(entries) >= 2
    /\ \E i \in DOMAIN entries : "overtimeValue" \in DOMAIN entries[i]
    /\ \E i \in DOMAIN entries : "overtimeValue" \notin DOMAIN entries[i]
    /\ report.stats.grossTotal > Len(entries) * entries[1].dailyRateSnapshot

\* C9: totalFromOvertime is the sum of the overtimeValue of the filtered
\* entries that have one, whatever their status; an entry without overtimeValue
\* adds nothing and no statistic becomes NaN.
C9_OvertimeIsAdditive ==
    /\ StatsAreNumbers
    /\ report.stats.totalFromOvertime
         = SumF([i \in DOMAIN entries |->
                    IF "overtimeValue" \in DOMAIN entries[i]
                    THEN entries[i].overtimeValue ELSE 0],
                SelectedEntries)

C9_Witness ==
    /\ mounted
    /\ \E i, j \in SelectedEntries :
         /\ entries[i].status \in {MISSED, DAY_OFF, EXTRA_SERVICE}
         /\ "overtimeValue" \in DOMAIN entries[i]
         /\ entries[i].overtimeValue > 0
         /\ "overtimeValue" \notin DOMAIN entries[j]
    /\ report.stats.totalFromOvertime > 0

Occurrences(xs, x) == Cardinality({i \in DOMAIN xs : xs[i] = x})

\* C10: in custom mode with the start date after the end date both filtered
\* lists are empty, every statistic is zero and nothing is thrown; with
\* start <= end an entry (an advance) is selected exactly when
\* start <= date <= end.
C10_CustomRange ==
    reportMode = "custom" =>
      /\ ~report.threw
      /\ DayIndex(customStartDate) > DayIndex(customEndDate)
           => /\ report.monthlyEntries = <<>>
              /\ report.monthlyAdvances = <<>>
              /\ report.stats = ZeroStats
      /\ DayIndex(customStartDate) <= DayIndex(customEndDate)
           => /\ \A i \in DOMAIN entries :
                   Occurrences(report.monthlyEntries, entries[i])
                     = IF i \in SelectedEntries THEN Occurrences(entries, entries[i]) ELSE 0
              /\ \A i \in DOMAIN advances :
                   Occurrences(report.monthlyAdvances, advances[i])
                     = IF i \in SelectedAdvances THEN Occurrences(advances, advances[i]) ELSE 0
              /\ Len(report.monthlyEntries) = Cardinality(SelectedEntries)
              /\ Len(report.monthlyAdvances) = Cardinality(SelectedAdvances)

C10_Witness ==
    /\ mounted
    /\ reportMode = "custom"
    /\ DayIndex(customStartDate) > DayIndex(customEndDate)
    /\ Len(entries) > 0
    /\ Len(advances) > 0
    /\ report.stats = ZeroStats

C10_WitnessInclusive ==
    /\ mounted
    /\ reportMode = "custom"
    /\ DayIndex(customStartDate) <= DayIndex(customEndDate)
    /\ \E i \in SelectedEntries : entries[i].date = customStartDate
    /\ \E i \in DOMAIN entries : i \notin SelectedEntries
    /\ Len(report.monthlyEntries) = Cardinality(SelectedEntries)

\* the entries and advances dated on or after the start of the open cycle
SinceCycleStart(xs) ==
    SelectSeq(xs, LAMBDA x : ~DateBefore(x.date, settings.billingCycleStartDate))

\* C11 as stated: the report offers a mode whose selection is the entries
\* and the advances dated on or after settings.billingCycleStartDate, with no
\* upper bound, whatever the month and the custom dates are set to.
C11_CycleModeOffered ==
    mounted =>
        \E mode \in ReportModes :
            \A month \in NavMonths, cs \in StartChoices, ce \in EndChoices :
                /\ FilterPeriod(entries, mode, month, cs, ce) = SinceCycleStart(entries)
                /\ FilterPeriod(advances, mode, month, cs, ce) = SinceCycleStart(advances)

\* a step writes settings whose cycle starts today
WritesNewCycle ==
    /\ Len(pushes') = Len(pushes) + 1
    /\ pushes'[Len(pushes')].key = KEYS.SETTINGS
    /\ pushes'[Len(pushes')].data.fields.billingCycleStartDate = Today

\* C12: closing a cycle writes the settings of the form with
\* billingCycleStartDate set to today and nothing else: the stored work
\* entries, advances and expenses are as before, so month mode and custom
\* mode select from them what they selected before.
C12_ResetCycleChangesOnlySettings ==
    [][WritesNewCycle =>
        /\ \A k \in StorageKeys \ {KEYS.SETTINGS} : localStorage'[k] = localStorage[k]
        /\ \E r \in FormRates :
              /\ getSettings(localStorage') = [FormData(r) EXCEPT !.billingCycleStartDate = Today]
              /\ settings' = getSettings(localStorage')
        /\ \A mode \in ReportModes, month \in NavMonths, cs \in StartChoices, ce \in EndChoices :
              /\ FilterPeriod(getWorkEntries(localStorage'), mode, month, cs, ce)
                    = FilterPeriod(getWorkEntries(localStorage), mode, month, cs, ce)
              /\ FilterPeriod(getAdvances(localStorage'), mode, month, cs, ce)
                    = FilterPeriod(getAdvances(localStorage), mode, month, cs, ce)]_vars

\* the cycle was closed today over a stored entry of the day before, and the
\* month mode of the report still lists that entry
C12_Witness ==
    /\ getSettings(localStorage).billingCycleStartDate = Today
    /\ getSettings(localStorage).dailyRate = Num(250)
    /\ Len(getWorkEntries(localStorage)) = 1
    /\ DateBefore(getWorkEntries(localStorage)[1].date, Today)
    /\ mounted
    /\ reportMode = "month"
    /\ report.monthlyEntries = getWorkEntries(localStorage)

-----------------------------------------------------------------------------
(* Properties of the backup file *)

\* the file is no JSON text, or the document has no workEntries, no advances
\* or no settings
LacksRequired(content) ==
    \/ content.kind # "json"
    \/ content.value.type # "object"
    \/ \E f \in {"workEntries", "advances", "settings"} :
          f \notin DOMAIN content.value.fields

\* the step in which handleFileChange hands a file to importAllData
FileChosen == writesLeft' = writesLeft - 1 /\ importCall'.pc # "none"

\* C13: importAllData on a text that does not parse, or on a document without
\* workEntries, advances or settings, returns false in that very step, with
\* no local key modified, no push issued and no remote row changed
C13_RejectedFileChangesNothing ==
    [][FileChosen /\ LacksRequired(importCall'.content)
         => /\ importCall'.pc = "returned"
            /\ ~importCall'.returned
            /\ localStorage' = localStorage
            /\ pushes' = pushes
            /\ remote' = remote]_vars

\* a document with entries and advances and without settings was refused
C13_Witness ==
    /\ importCall.pc = "returned"
    /\ ~importCall.returned
    /\ importCall.content.kind = "json"
    /\ importCall.content.value.type = "object"
    /\ DOMAIN importCall.content.value.fields = {"workEntries", "advances", "expenses"}
    /\ pushes = <<>>


\* the document has workEntries, advances and settings, each an array or an object
ValidDocument(content) ==
    /\ content.kind = "json"
    /\ content.value.type = "object"
    /\ \A f \in {"workEntries", "advances", "settings"} :
          /\ f \in DOMAIN content.value.fields
          /\ content.value.fields[f].type \in {"array", "object"}

\* C14: importAllData on a valid document returns true whatever becomes of
\* its remote pushes (no session, a remote error, a failed session lookup):
\* it never returns false once the local collections are overwritten
C14_ValidFileReturnsTrue ==
    importCall.pc = "returned" /\ ValidDocument(importCall.content)
        => importCall.returned


\* the file is one exportAllData wrote
IsExport(content) ==
    /\ content.kind = "json"
    /\ content.value.type = "object"
    /\ "exportedAt" \in DOMAIN content.value.fields

\* the getters return the same values in both stores
SameReads(a, b) ==
    /\ getWorkEntries(a) = getWorkEntries(b)
    /\ getAdvances(a) = getAdvances(b)
    /\ getExpenses(a) = getExpenses(b)
    /\ getSettings(a) = getSettings(b)

\* importing the export of the store leaves every getter with the value it had
RoundTripKeepsTheReads ==
    [][FileChosen /\ IsExport(importCall'.content)
         => SameReads(localStorage', localStorage)]_vars

\* C15: for every state of the local store, importAllData(exportAllData())
\* succeeds, and afterwards getWorkEntries, getAdvances, getExpenses and
\* getSettings return what they returned before
C15_RoundTrip ==
    [][/\ FileChosen /\ IsExport(importCall'.content)
            => importCall'.pc = "awaiting" /\ SameReads(localStorage', localStorage)
       /\ importCall'.pc = "returned" /\ IsExport(importCall'.content)
            => importCall'.returned]_vars

-----------------------------------------------------------------------------
(* Properties of the getters *)

\* the defaults written in getSettings, the cycle starting with the month
HardDefaults ==
    [dailyRate |-> Num(200), workerName |-> "", employerName |-> "",
     currency |-> "BRL", theme |-> "light", notificationEnabled |-> FALSE,
     notificationTime |-> "18:00", billingCycleStartDate |-> <<Today[1], Today[2], 1>>]

\* the fields of the stored settings: none when the key is absent or unparsable
StoredFields(text) == IF text.kind = "json" THEN DOMAIN text.value.fields ELSE {}

IsListOf(v, items) == DOMAIN v = DOMAIN items /\ \A i \in DOMAIN items : v[i] = items[i]

\* the list a payload stands for: its items when it parses to a list
ExpectedItems(text) ==
    IF text.kind = "json" /\ text.value.type = "array" THEN text.value.items ELSE <<>>

ReadsLeaveTheStore == [][mounted' /\ ~mounted => localStorage' = localStorage]_vars

-----------------------------------------------------------------------------
(* Properties of the extra services, of the pull and of the push *)

\* the step saves an extra service: a write of the work entries that removes
\* none (no delete) and leaves no day entry in the list (no save of a day)
ExtraServiceSaved ==
    /\ writesLeft' = writesLeft - 1
    /\ pushes'[Len(pushes')].key = KEYS.WORK_ENTRIES
    /\ Len(getWorkEntries(localStorage')) >= Len(getWorkEntries(localStorage))
    /\ getWorkEntries(localStorage') # <<>>
    /\ \A i \in DOMAIN getWorkEntries(localStorage') :
          getWorkEntries(localStorage')[i].status = EXTRA_SERVICE

\* C18: every save of an extra service adds one entry and leaves the entries
\* stored before as they were, whatever the clock reads at the save
C18_ExtraServiceSavesNeverCollide ==
    [][ExtraServiceSaved
         => /\ Len(getWorkEntries(localStorage')) = Len(getWorkEntries(localStorage)) + 1
            /\ \A i \in DOMAIN getWorkEntries(localStorage) :
                  getWorkEntries(localStorage')[i] = getWorkEntries(localStorage)[i]]_vars

\* the select finds no row of the user
NoRows(u) == \A k \in Categories : remote[u][k] = NoRow

C20_PushWritesOneRowOrNothing ==
    [][/\ \A i \in DOMAIN pushes :
             PushGetSession(i, "ok") /\ authSession = NoUser
                 => /\ remote' = remote
                    /\ localStorage' = localStorage
                    /\ pushes' = RemoveAt(pushes, i)
                    /\ ~importCall'.rejected
       /\ remote' # remote
             => \E i \in DOMAIN pushes :
                   /\ pushes[i].pc = "upsert"
                   /\ pushes[i].user # NoUser
                   /\ remote'[pushes[i].user][pushes[i].key] = pushes[i].data
                   /\ \A u \in Users, k \in Categories :
                         <<u, k>> # <<pushes[i].user, pushes[i].key>>
                             => remote'[u][k] = remote[u][k]]_vars

\* a push found no session and left an entry stored locally and no row, and
\* the table is as it was at the start
C20_Witness ==
    /\ writesLeft = 0
    /\ pushes = <<>>
    /\ authSession = NoUser
    /\ getWorkEntries(localStorage) # <<>>
    /\ \A u \in Users : NoRows(u)

-----------------------------------------------------------------------------
(* Properties of the frame: what an operation leaves alone *)

\* C21: clearLocalData, run by the logout, leaves the three lists empty and
\* the settings at their defaults, keeps the date of the last notification
\* and changes no remote row
C21_ClearKeepsNotificationDate ==
    [][handleLogout("ok") \/ handleLogout("throws")
         => /\ getWorkEntries(localStorage') = <<>>
            /\ getAdvances(localStorage') = <<>>
            /\ getExpenses(localStorage') = <<>>
            /\ getSettings(localStorage') = HardDefaults
            /\ \A k \in Categories : localStorage'[k] = NoItem
            /\ localStorage'[KEYS.LAST_NOTIF] = localStorage[KEYS.LAST_NOTIF]
            /\ remote' = remote]_vars

\* after two writes and a logout the collections are gone, the date of the
\* last notification is still stored
C21_Witness ==
    /\ session = NoUser
    /\ writesLeft = 0
    /\ \A k \in Categories : localStorage[k] = NoItem
    /\ localStorage[KEYS.LAST_NOTIF] = [kind |-> "text"]

\* the report of the current month over the lists a store holds
ReportOfStore(store) ==
    ComputeReport(getWorkEntries(store), getAdvances(store), "month", MonthOf(Today),
                  startOfMonth(Today), endOfMonth(Today))

\* a step of ExpensesTab: an expense is added or deleted
ExpenseStep ==
    \/ \E a \in FormAmounts, t \in 1..MaxClock : ExpensesHandleAdd(FormDay, a, t)
    \/ \E i \in DOMAIN getExpenses(localStorage) :
          ExpensesHandleDelete(getExpenses(localStorage)[i].id)

\* C22: saving or deleting an expense changes neither the work entries nor
\* the advances nor the report computed over the store, and the report shown
\* is the aggregation of the stored work entries and advances alone
C22_ExpensesStayOutOfTheReport ==
    [][/\ ExpenseStep
            => /\ getWorkEntries(localStorage') = getWorkEntries(localStorage)
               /\ getAdvances(localStorage') = getAdvances(localStorage)
               /\ ReportOfStore(localStorage') = ReportOfStore(localStorage)
       /\ mounted'
            => report' = ComputeReport(getWorkEntries(localStorage'),
                                       getAdvances(localStorage'), reportMode',
                                       currentMonthDate', customStartDate',
                                       customEndDate')]_vars

\* the report over a store holding a worked day and an expense of the month:
\* a gross total, no advance
C22_Witness ==
    /\ mounted
    /\ Len(getExpenses(localStorage)) = 1
    /\ Len(entries) = 1
    /\ report.stats.grossTotal > 0
    /\ report.stats.totalAdvances = 0
    /\ report.stats.finalTotal = report.stats.grossTotal

\* a step of SettingsTab that saves the settings
SettingsStep == \E r \in FormRates : SettingsHandleSave(r) \/ handleResetCycle(r)

\* C23: saving the settings leaves every stored work entry, its
\* dailyRateSnapshot and the report over the store unchanged; the entry a save
\* of a day writes carries the daily rate of the settings at that save, and
\* the entries of the other days keep theirs
C23_RateChangeIsNotRetroactive ==
    [][/\ SettingsStep
            => /\ getWorkEntries(localStorage') = getWorkEntries(localStorage)
               /\ ReportOfStore(localStorage') = ReportOfStore(localStorage)
       /\ \A d \in FormDates, ot \in FormOvertimes, sv \in FormServiceValues,
             t \in 1..MaxClock :
             HomeHandleSave(d, WORKED, ot, sv, t)
                 => \A i \in DOMAIN getWorkEntries(localStorage') :
                       LET e == getWorkEntries(localStorage')[i]
                       IN  IF e.id = d
                           THEN e.dailyRateSnapshot = settings.dailyRate
                           ELSE \E j \in DOMAIN getWorkEntries(localStorage) :
                                   getWorkEntries(localStorage)[j] = e]_vars

\* an entry saved at the rate 200 is stored unchanged under a saved rate of 250
C23_Witness ==
    /\ settings.dailyRate = Num(250)
    /\ getSettings(localStorage).dailyRate = Num(250)
    /\ Len(getWorkEntries(localStorage)) = 1
    /\ getWorkEntries(localStorage)[1].status = WORKED
    /\ getWorkEntries(localStorage)[1].dailyRateSnapshot = Num(200)

-----------------------------------------------------------------------------
(* Properties of the pull and of the pushes of one device *)

\* the select returns a row of the category with data
HasData(row) == row # NoRow /\ row.type \in {"array", "object"}

C25_LastWriteWins ==
    pushes = <<>>
        => \A k \in Categories :
              localStorage[k] # NoItem
                  => /\ remote["A"][k] # NoRow
                     /\ localStorage[k] = JSONStringify(remote["A"][k])

-----------------------------------------------------------------------------
(* Properties of the lists and of the counters of the report *)

\* no element of the list is dated before an element that precedes it
AscendingByDate(xs) ==
    \A i, j \in DOMAIN xs : i < j => ~DateBefore(xs[j].date, xs[i].date)

\* out holds every element of xs of the selected period as often as xs does,
\* and nothing else
SelectedSubCollection(out, xs) ==
    /\ \A i \in DOMAIN xs :
          Occurrences(out, xs[i]) =
              IF InSelectedPeriod(xs[i].date) THEN Occurrences(xs, xs[i]) ELSE 0
    /\ \A i \in DOMAIN out : \E j \in DOMAIN xs : xs[j] = out[i]

C28_MissedAndExtraCounters ==
    /\ report.stats.daysMissed = Num(1) * Cardinality(WithStatus(MISSED))
    /\ report.stats.totalFromExtraServices
         = SumF([i \in DOMAIN entries |-> entries[i].dailyRateSnapshot],
                WithStatus(EXTRA_SERVICE))
    /\ report.stats.daysWorked
         = Num(1) * Cardinality(WithStatus(WORKED)) + Cardinality(WithStatus(HALF_DAY))
    /\ report.stats.totalFromDays
         = SumF([i \in DOMAIN entries |-> entries[i].dailyRateSnapshot], WithStatus(WORKED))
           + SumF([i \in DOMAIN entries |-> entries[i].dailyRateSnapshot \div 2],
                  WithStatus(HALF_DAY))
    /\ (\A i \in SelectedEntries : entries[i].status \in {MISSED, DAY_OFF, EXTRA_SERVICE})
           => report.stats.daysWorked = 0 /\ report.stats.totalFromDays = 0
    /\ entries = <<>> /\ advances = <<>> => report.stats = ZeroStats /\ ~report.threw

\* an extra service and a day missed are selected: one day missed, the
\* service's rate under extra services, no day worked, nothing earned by days
C28_Witness ==
    /\ mounted
    /\ Len(entries) = 2
    /\ SelectedEntries = {1, 2}
    /\ {entries[1].status, entries[2].status} = {MISSED, EXTRA_SERVICE}
    /\ report.stats.daysMissed = Num(1)
    /\ report.stats.totalFromExtraServices > 0
    /\ report.stats.daysWorked = 0
    /\ report.stats.totalFromDays = 0

\* the list read under the key after the step is the list read before it
\* without the entries of the id: the others, each as often as before and in
\* the order they had, and every other key holds the text it held
DeletedFrom(key, id) ==
    LET old == GetList(localStorage, key)
        new == GetList(localStorage', key)
        kept == {i \in DOMAIN old : old[i].id # id}
    IN  /\ \A i \in DOMAIN new : new[i].id # id
        /\ Len(new) = Cardinality(kept)
        /\ \A i \in kept : Occurrences(new, old[i]) = Occurrences(old, old[i])
        /\ \A i, j \in kept :
              i < j /\ old[i] # old[j]
                  => \E p, q \in DOMAIN new : p < q /\ new[p] = old[i] /\ new[q] = old[j]
        /\ \A k \in StorageKeys \ {key} : localStorage'[k] = localStorage[k]
        /\ settings' = settings

\* the list read under the key after the step is the list read before it with
\* one entry of the id replaced where it stood, or, when the id was not in
\* the list, with one entry of the id added at the end
SavedInto(key, id) ==
    LET old == GetList(localStorage, key)
        new == GetList(localStorage', key)
    IN  /\ IF \E i \in DOMAIN old : old[i].id = id
           THEN /\ Len(new) = Len(old)
                /\ \A i \in DOMAIN old : new[i].id = old[i].id
                /\ Cardinality({i \in DOMAIN old : new[i] # old[i]}) <= 1
           ELSE /\ Len(new) = Len(old) + 1
                /\ SubSeq(new, 1, Len(old)) = old
                /\ new[Len(new)].id = id
        /\ \A k \in StorageKeys \ {key} : localStorage'[k] = localStorage[k]
        /\ settings' = settings

\* ids that no stored entry carries
AbsentIds == {<<2024, 1, 1>>, <<7>>}

\* C27: a delete removes every entry of the id from its own list and leaves
\* the other entries, their order, the other lists and the settings alone; a
\* delete of an id that is not there leaves the list as it reads; a save on
\* an id that is there overwrites in place, number and order unchanged
C27_DeleteAndSaveTouchOneId ==
    [][/\ \A i \in DOMAIN entries :
             handleDeleteEntry(entries[i].id)
                 => DeletedFrom(KEYS.WORK_ENTRIES, entries[i].id)
       /\ \A i \in DOMAIN getAdvances(localStorage) :
             AdvancesHandleDelete(getAdvances(localStorage)[i].id)
                 => DeletedFrom(KEYS.ADVANCES, getAdvances(localStorage)[i].id)
       /\ \A i \in DOMAIN getExpenses(localStorage) :
             ExpensesHandleDelete(getExpenses(localStorage)[i].id)
                 => DeletedFrom(KEYS.EXPENSES, getExpenses(localStorage)[i].id)
       /\ \A d \in FormDates, st \in FormStatuses, ot \in FormOvertimes,
             sv \in FormServiceValues, t \in 1..MaxClock :
             HomeHandleSave(d, st, ot, sv, t)
                 => SavedInto(KEYS.WORK_ENTRIES,
                              IF st = EXTRA_SERVICE THEN ClockId(t) ELSE d)
       /\ \A a \in FormAmounts, t \in 1..MaxClock :
             /\ AdvancesHandleAdd(FormDay, a, t) => SavedInto(KEYS.ADVANCES, ClockId(t))
             /\ ExpensesHandleAdd(FormDay, a, t) => SavedInto(KEYS.EXPENSES, ClockId(t))
       /\ \A key \in {KEYS.WORK_ENTRIES, KEYS.ADVANCES, KEYS.EXPENSES}, id \in AbsentIds :
             GetList(PersistList(localStorage, key,
                                 FilterOut(GetList(localStorage, key), id)), key)
                 = GetList(localStorage, key)
      ]_vars

\* the day that was stored twice was deleted in the report and saved anew:
\* the two days around it stand where they stood, the advances and expenses
\* are the four of the start
C27_Witness ==
    /\ writesLeft = 0
    /\ Len(pushes) = 2
    /\ pushes[1].key = KEYS.WORK_ENTRIES
    /\ Len(pushes[1].data.items) = 2
    /\ Len(getWorkEntries(localStorage)) = 3
    /\ getWorkEntries(localStorage)
         = << ScenarioEntries[1], ScenarioEntries[3], getWorkEntries(localStorage)[3] >>
    /\ getWorkEntries(localStorage)[3].id = <<2025, 1, 6>>
    /\ Len(getAdvances(localStorage)) = 2
    /\ Len(getExpenses(localStorage)) = 2

\* the row holds an entry, or settings, written under the session of the user v
RowHoldsDataOf(row, v) ==
    /\ row # NoRow
    /\ \/ row.type = "array" /\ \E i \in DOMAIN row.items : row.items[i].note = v
       \/ row.type = "object" /\ row.fields.workerName = v

\* C29: no row of a user holds data that was written to the local store
\* under the session of another user, whatever the order of the saves, the
\* detached pushes, the logouts and the logins
C29_RowsHoldOwnDataOnly ==
    \A u \in Users, k \in Categories :
        \A v \in Users \ {u} : ~RowHoldsDataOf(remote[u][k], v)

\* the push p carries the list that a save of the user u wrote under its key,
\* and the local store still holds that list
SavedListInFlight(p, u) ==
    /\ pushes[p].data.type = "array"
    /\ pushes[p].data.items # <<>>
    /\ GetList(localStorage, pushes[p].key) = pushes[p].data.items
    /\ \A j \in DOMAIN pushes[p].data.items : pushes[p].data.items[j].note = u

\* C30: a pull of the user's own rows that answers while the push of a save
\* is still in flight leaves every entry of the saved list in the local store
C30_PullKeepsWhatASaveWrote ==
    [][\A i \in DOMAIN pulls, outcome \in {"ok", "error", "throws"} :
          FetchSelect(i, outcome)
              => \A p \in DOMAIN pushes :
                    SavedListInFlight(p, pulls[i].user)
                        => \A j \in DOMAIN pushes[p].data.items :
                              \E n \in DOMAIN GetList(localStorage', pushes[p].key) :
                                  GetList(localStorage', pushes[p].key)[n]
                                      = pushes[p].data.items[j]]_vars

=============================================================================
